---------------------------- MODULE Spec2Model ----------------------------
(***************************************************************************)
(* AetherStream internet radio (src/src/esp32-stream-system.cpp): the      *)
(* interaction state machine of loop(), with setup(), the preferences      *)
(* store, the rotary encoder, the display timer, the sleep timer, the      *)
(* zero-volume power-down and the configuration portal.                    *)
(*                                                                         *)
(* One step of the model is one pass of loop() (Tick), or the wake edge    *)
(* that ends a CPU light sleep (WakeEdge).  The program state is the       *)
(* record st, whose fields carry the names of the globals of the source.   *)
(* Its field log lists, in program order, what a pass has read from the    *)
(* controls ("click", "turn", the pins found low) and the calls it has     *)
(* made that act outside the program (stream, preferences, portal, power,  *)
(* and the notices "oled:..." that report a change of state).  The log is  *)
(* empty between the passes of Tick; Pass keeps the log of the latest pass *)
(* in the state.                                                           *)
(***************************************************************************)
EXTENDS Integers, Sequences, FiniteSets, TLC

VARIABLES st

vars == <<st>>

---------------------------------------------------------------------------
(* Program constants                                                       *)

PORTAL_DOWN == 0
PORTAL_UP == 1
PORTAL_SAVE == 2
PORTAL_IDLE == 4

OLED_TIMER == 3500

MS1HOUR == 3600000
MS2HOUR == 3600000 * 2
MS4HOUR == 3600000 * 4
MS6HOUR == 3600000 * 6
MS8HOUR == 3600000 * 8
MS12HOUR == 3600000 * 12

STREAM_ELEMENT_SIZE == 50

WOC_GET == 0
WOC_SET == 1

\* rotaryEncoder.setBoundaries(0, 100, false)
ENC_MIN == 0
ENC_MAX == 100

---------------------------------------------------------------------------
(* Bounds of the model                                                     *)

\* TOTAL_ITEMS is 36 in the source (line 92); the model runs the same code
\* over a shorter station list.
TOTAL_ITEMS == 3

\* the encoder interrupt moves the position by this many counts between
\* two passes of loop() (the library accelerates fast turns)
EncJump == 100

\* millis() is an unsigned long of 32 bits; the model checker's integers
\* are narrower, so the model's clock is an unsigned counter of ClockBits
\* bits: its period of about 37 hours is longer than the longest timer
\* duration and it wraps like the clock of the source
ClockBits == 27

\* at most this many of click, knob turn, pin pulse, metadata title and
\* portal form arrive within one pass of loop()
MaxEvents == 1

---------------------------------------------------------------------------
(* Small helpers                                                           *)

Slots == 0 .. (TOTAL_ITEMS - 1)

ULONG_MOD == 2 ^ ClockBits

\* unsigned long subtraction a - b
USub(a, b) == (a - b) % ULONG_MOD

Clamp(v) == IF v > ENC_MAX THEN ENC_MAX ELSE IF v < ENC_MIN THEN ENC_MIN ELSE v

Call(s, c) == [s EXCEPT !.log = Append(@, c)]

---------------------------------------------------------------------------
(* Preferences store (settings namespace and one namespace per station)    *)

\* prefs.getInt(setting, 0): a key never written reads as 0
getSetting(s, setting) == s.prefs[setting]

putSetting(s, setting, settingVal) ==
    Call([s EXCEPT !.prefs[setting] = settingVal], "putSetting:" \o setting)

\* a blank NVS partition: no key exists
BlankPrefs ==
    [ initPref  |-> FALSE,
      curStream |-> 0,
      prvStream |-> 0,
      volume    |-> 0,
      timerVal  |-> 0,
      timerOn   |-> 0,
      woc       |-> 0,
      stations  |-> [i \in 1 .. TOTAL_ITEMS |-> [tag |-> "", url |-> ""]] ]

---------------------------------------------------------------------------
(* Station store: the streamsX array                                       *)

\* the compiled-in default table (include/AetherStreams.h), shortened to
\* the stations the model keeps
stream_data ==
    << [tag |-> "Psyndora Chillout",   url |-> "http://cast.magicstreams.gr:9125"],
       [tag |-> "Psyndora Psytrance",  url |-> "http://cast.magicstreams.gr:9111"],
       [tag |-> "Radio Play Emotions", url |-> "http://5.39.82.157:8054/stream"],
       [tag |-> "Rare 80s Music",      url |-> "http://209.9.238.4:9844/"],
       [tag |-> "Simply Oldies",       url |-> "http://uk5.internet-radio.com:8153"] >>

\* strncpy(dest, src, STREAM_ELEMENT_SIZE): the bytes of the field before
\* its first NUL; a source of STREAM_ELEMENT_SIZE or more characters fills
\* the field and leaves it unterminated
FieldOf(src) ==
    IF Len(src) >= STREAM_ELEMENT_SIZE THEN SubSeq(src, 1, STREAM_ELEMENT_SIZE) ELSE src

\* streamsX is kept as its 2 * TOTAL_ITEMS fields in memory order:
\* field 2i+1 is the tag of slot i, field 2i+2 its url
putStreams(s, index, tag, url) ==
    [s EXCEPT !.streamsX[2 * index + 1] = FieldOf(tag),
              !.streamsX[2 * index + 2] = FieldOf(url)]

\* the C string that starts at field k: it runs on through the following
\* fields while they are unterminated
RECURSIVE CStringAt(_, _)
CStringAt(fields, k) ==
    IF k > Len(fields) THEN ""
    ELSE IF Len(fields[k]) < STREAM_ELEMENT_SIZE THEN fields[k]
    ELSE fields[k] \o CStringAt(fields, k + 1)

\* streamsX followed by what the linker has placed after it: a read that
\* runs off the last field continues there (undefined behaviour, whose
\* outcome is the content of memAfter)
Memory(s) ==
    [k \in 1 .. (2 * TOTAL_ITEMS + 1) |->
       IF k <= 2 * TOTAL_ITEMS THEN s.streamsX[k] ELSE s.memAfter]

\* the C string read through a pointer to field k: it ends inside the
\* field when the field holds a NUL, and runs on through memory otherwise
ReadAt(s, k) ==
    IF Len(s.streamsX[k]) < STREAM_ELEMENT_SIZE THEN s.streamsX[k]
    ELSE CStringAt(Memory(s), k)

getStreamsTag(s, index) == ReadAt(s, 2 * index + 1)

getStreamsUrl(s, index) == ReadAt(s, 2 * index + 2)

\* strncmp(url, "http://", 7) == 0
ProtocolOk(url) == Len(url) >= 7 /\ SubSeq(url, 1, 7) = "http://"

checkProtocol(s, menuIndex) == ProtocolOk(getStreamsUrl(s, menuIndex))

\* lines 931-968: the indices that displayStreamMenu(menuIndex) hands to
\* checkProtocol and getStreamsTag: the title line, then the stored
\* previous station while the toggle option is armed, otherwise the line
\* before the cursor, the cursor and the line after it
displayStreamMenu(s, menuIndex) ==
    {s.currentIndex} \cup
    IF s.streamToggleOption
    THEN {getSetting(s, "prvStream")}
    ELSE { IF menuIndex = 0 THEN TOTAL_ITEMS - 1 ELSE menuIndex - 1,
           menuIndex,
           IF menuIndex = TOTAL_ITEMS - 1 THEN 0 ELSE menuIndex + 1 }

\* initializeStreams: the default table into the prefs, current stream 0
RECURSIVE InitializeFrom(_, _)
InitializeFrom(s, item) ==
    IF item >= TOTAL_ITEMS THEN s
    ELSE InitializeFrom([s EXCEPT !.prefs.stations[item + 1] = stream_data[item + 1]],
                        item + 1)

initializeStreams(s) == putSetting(InitializeFrom(s, 0), "curStream", 0)

\* the loop of populateStreams: streamsX from the prefs
RECURSIVE PopulateFrom(_, _)
PopulateFrom(s, item) ==
    IF item >= TOTAL_ITEMS THEN s
    ELSE PopulateFrom(putStreams(s, item, s.prefs.stations[item + 1].tag,
                                          s.prefs.stations[item + 1].url),
                      item + 1)

populateStreams(s) ==
    LET seeded ==
          IF ~s.prefs.initPref
          THEN putSetting(
                 putSetting(
                   initializeStreams(Call([s EXCEPT !.prefs.initPref = TRUE],
                                          "putInt:initPref")),
                   "timerOn", 1),
                 "timerVal", 0)
          ELSE s
    IN  PopulateFrom(seeded, 0)

\* populatePrefs: streamsX into the prefs
RECURSIVE PrefsFrom(_, _)
PrefsFrom(s, item) ==
    IF item >= TOTAL_ITEMS THEN s
    ELSE PrefsFrom([s EXCEPT !.prefs.stations[item + 1] =
                               [tag |-> getStreamsTag(s, item),
                                url |-> getStreamsUrl(s, item)]],
                   item + 1)

populatePrefs(s) == Call(PrefsFrom(s, 0), "populatePrefs")

\* the toggle that also stores the index it returns as current station
toggleToPreviousStream_StoresCurrent(s) ==
    [putSetting(putSetting(s, "prvStream", s.currentIndex),
                "curStream", getSetting(s, "prvStream"))
       EXCEPT !.currentIndex = getSetting(s, "prvStream")]

\* toggleToPreviousStream stores the running index and returns the stored
\* one; the caller assigns the result to currentIndex
toggleToPreviousStream(s) ==
    [putSetting(s, "prvStream", s.currentIndex)
       EXCEPT !.currentIndex = getSetting(s, "prvStream")]

---------------------------------------------------------------------------
(* Sleep timer settings                                                    *)

assignTimerValsFromPrefs(s) ==
    LET v == getSetting(s, "timerVal")
        d == CASE v = 1 -> MS2HOUR
               [] v = 2 -> MS4HOUR
               [] v = 3 -> MS6HOUR
               [] v = 4 -> MS8HOUR
               [] v = 5 -> MS12HOUR
               [] OTHER -> MS1HOUR
    IN  [s EXCEPT !.sleepTimerDuration = d,
                  !.timerIsRunning = (getSetting(s, "timerOn") = 1)]

\* the cycle with the step from the longest duration back to the shortest
changeTimerDuration_SkipDisabled(s) ==
    IF s.timerIsRunning = FALSE
    THEN [s EXCEPT !.timerIsRunning = TRUE, !.sleepTimerDuration = MS1HOUR]
    ELSE CASE s.sleepTimerDuration = MS1HOUR -> [s EXCEPT !.sleepTimerDuration = MS2HOUR]
           [] s.sleepTimerDuration = MS2HOUR -> [s EXCEPT !.sleepTimerDuration = MS4HOUR]
           [] s.sleepTimerDuration = MS4HOUR -> [s EXCEPT !.sleepTimerDuration = MS6HOUR]
           [] s.sleepTimerDuration = MS6HOUR -> [s EXCEPT !.sleepTimerDuration = MS8HOUR]
           [] s.sleepTimerDuration = MS8HOUR -> [s EXCEPT !.sleepTimerDuration = MS12HOUR]
           [] s.sleepTimerDuration = MS12HOUR -> [s EXCEPT !.sleepTimerDuration = MS1HOUR]
           [] OTHER -> s

changeTimerDuration(s) ==
    IF s.timerIsRunning = FALSE
    THEN [s EXCEPT !.timerIsRunning = TRUE, !.sleepTimerDuration = MS1HOUR]
    ELSE CASE s.sleepTimerDuration = MS1HOUR -> [s EXCEPT !.sleepTimerDuration = MS2HOUR]
           [] s.sleepTimerDuration = MS2HOUR -> [s EXCEPT !.sleepTimerDuration = MS4HOUR]
           [] s.sleepTimerDuration = MS4HOUR -> [s EXCEPT !.sleepTimerDuration = MS6HOUR]
           [] s.sleepTimerDuration = MS6HOUR -> [s EXCEPT !.sleepTimerDuration = MS8HOUR]
           [] s.sleepTimerDuration = MS8HOUR -> [s EXCEPT !.sleepTimerDuration = MS12HOUR]
           [] s.sleepTimerDuration = MS12HOUR ->
                [s EXCEPT !.sleepTimerDuration = MS1HOUR, !.timerIsRunning = FALSE]
           [] OTHER -> s

timerDurationToValue(duration) ==
    CASE duration = MS2HOUR -> 1
      [] duration = MS4HOUR -> 2
      [] duration = MS6HOUR -> 3
      [] duration = MS8HOUR -> 4
      [] duration = MS12HOUR -> 5
      [] OTHER -> 0

---------------------------------------------------------------------------
(* Rotary encoder (AiEsp32RotaryEncoder object rotaryEncoder)              *)

readEncoder(s) == s.encoderPos

\* setEncoderValue also takes the new value as the last one read, so it
\* is not reported as a change
setEncoderValue(s, v) ==
    [s EXCEPT !.encoderPos = Clamp(v), !.lastReadEncoderPos = Clamp(v)]

\* encoderChanged(): the position differs from the one last read; the call
\* takes the current position as read
encoderChangedVal(s) == s.encoderPos # s.lastReadEncoderPos

encoderChangedUpd(s) == [s EXCEPT !.lastReadEncoderPos = s.encoderPos]

\* readEncoderISR: the interrupt moves the position within the boundaries
readEncoderISR(s, delta) == [s EXCEPT !.encoderPos = Clamp(@ + delta)]

---------------------------------------------------------------------------
(* Display, audio stream and power                                         *)

\* displayIsOn = true; oledStartTime = millis();
TickleDisplay(s) == [s EXCEPT !.displayIsOn = TRUE, !.oledStartTime = s.millis]

\* displayMeta: nothing but a cleared screen when there is no title
displayMeta(s) == IF Len(s.metaTitle) = 0 THEN s ELSE TickleDisplay(s)

\* icystream.end(); systemStreaming = false;
StopStream(s) ==
    [Call([s EXCEPT !.icyOpen = FALSE], "icystream.end") EXCEPT !.systemStreaming = FALSE]

\* wakeOnClick(WOC_SET)
wakeOnClickSet(s) == putSetting(s, "woc", WOC_SET)

\* wakeOnClick(WOC_GET): the flag is cleared by the read that finds it set
wakeOnClickGetVal(s) == getSetting(s, "woc") = WOC_SET

\* wakeOnClick(WOC_GET) without the reset of the stored value
wakeOnClickGetUpd_NoReset(s) == s

wakeOnClickGetUpd(s) == IF getSetting(s, "woc") = WOC_SET THEN putSetting(s, "woc", 0) ELSE s

\* systemPowerDown up to esp_light_sleep_start(), where the CPU halts: the
\* states after each of its statements, in program order
PowerDownSteps(s) ==
    LET a == StopStream(s)
        b == [a EXCEPT !.systemIsSleeping = TRUE]
        c == wakeOnClickSet(b)
        d == Call([c EXCEPT !.wakeArmed = TRUE], "esp_sleep_enable_ext0_wakeup")
        e == Call([d EXCEPT !.wifiOn = FALSE], "esp_wifi_stop")
        f == Call([e EXCEPT !.cpu = "suspended"], "esp_light_sleep_start")
    IN  << a, b, c, d, e, f >>

systemPowerDown(s) == LET t == PowerDownSteps(s) IN t[Len(t)]

---------------------------------------------------------------------------
(* setup() and the initializers of the loop globals                        *)

\* the globals as their initializers leave them when setup() is entered;
\* seedWrites counts the writes that the seeding of a blank store has made;
\* pc is "loop" between two passes and "scroll" when the menu scroll stands
\* between its read of the encoder and its re-center, encoderCurrPos is
\* the local variable that holds the value read
Globals(prefs) ==
    [ prefs |-> prefs,
      log |-> << "setup" >>,
      cpu |-> "running",
      millis |-> 0,
      wifiOn |-> TRUE,
      wakeArmed |-> FALSE,
      webPortal |-> FALSE,
      icyOpen |-> FALSE,
      icyUrl |-> "",
      encoderPos |-> 0,
      lastReadEncoderPos |-> 0,
      param |-> << >>,
      streamsX |-> [k \in 1 .. 2 * TOTAL_ITEMS |-> ""],
      memAfter |-> "",
      currentIndex |-> 0,
      volLevel |-> 0,
      timerIsRunning |-> FALSE,
      sleepTimerDuration |-> 0,
      systemIsSleeping |-> TRUE,
      displayIsOn |-> TRUE,
      oledStartTime |-> 0,
      systemStreaming |-> FALSE,
      streamToggleOption |-> FALSE,
      streamSelectionMenuIsOpen |-> FALSE,
      menuIndex |-> 0,
      volumePos |-> 0,
      timerInSetupMode |-> FALSE,
      sleepStartTime |-> 0,
      portalMode |-> PORTAL_DOWN,
      firstPortal |-> TRUE,
      metaEnabled |-> FALSE,
      metaQueryTriggered |-> FALSE,
      metaTitle |-> "",
      toggleFlag |-> FALSE,
      seedWrites |-> 0,
      pc |-> "loop", encoderCurrPos |-> 0 ]

\* pins: the levels of STREAM_PIN and START_PIN at reset (TRUE is low)
setup(prefs, pins) ==
    LET g == Globals(prefs)
        a == IF pins.stream THEN initializeStreams(g) ELSE g
        b == populateStreams(a)
        c == IF pins.start THEN [b EXCEPT !.systemIsSleeping = FALSE] ELSE b
        d == IF wakeOnClickGetVal(c)
             THEN [wakeOnClickGetUpd(c) EXCEPT !.systemIsSleeping = FALSE]
             ELSE c
        e == [d EXCEPT !.currentIndex = getSetting(d, "curStream")]
        f == setEncoderValue(e, 100 - getSetting(e, "volume"))
        h == assignTimerValsFromPrefs(f)
    IN  [h EXCEPT !.volLevel = getSetting(h, "volume")]

---------------------------------------------------------------------------
(* loop(): the steps of one pass, in program order                         *)

\* the wake that keeps the old sleep timer baseline
WakeStep_KeepsBaseline(s, i) ==
    LET changedCalled == ~i.click
        woke == i.click \/ encoderChangedVal(s)
        a == IF changedCalled THEN encoderChangedUpd(s) ELSE s
    IN  IF woke
        THEN TickleDisplay(Call([Call(a, IF i.click THEN "click" ELSE "turn")
                                   EXCEPT !.systemIsSleeping = FALSE],
                                "oled:WAKE UP"))
        ELSE a

\* lines 376-391: asleep, only a click or a turn of the knob is looked at
WakeStep(s, i) ==
    LET changedCalled == ~i.click
        woke == i.click \/ encoderChangedVal(s)
        a == IF changedCalled THEN encoderChangedUpd(s) ELSE s
    IN  IF woke
        THEN TickleDisplay(Call([Call(a, IF i.click THEN "click" ELSE "turn")
                                   EXCEPT !.systemIsSleeping = FALSE,
                                          !.sleepStartTime = s.millis],
                                "oled:WAKE UP"))
        ELSE a

\* the stream start with the indexes left alone when the url is refused
StreamStep_KeepsIndex(s, i) ==
    IF s.systemStreaming
    THEN IF i.icyTitle # ""
         THEN [Call(s, "callbackMetadata") EXCEPT !.metaTitle = i.icyTitle]
         ELSE s
    ELSE LET a == IF checkProtocol(s, s.currentIndex)
                  THEN [putSetting(
                          Call([s EXCEPT !.icyOpen = i.connect,
                                         !.icyUrl = getStreamsUrl(s, s.currentIndex)],
                               "icystream.begin"),
                          "curStream", s.currentIndex)
                        EXCEPT !.systemStreaming = TRUE]
                  ELSE Call(s, "oled:Missing URL")
         IN  TickleDisplay([a EXCEPT !.metaTitle = "", !.metaQueryTriggered = TRUE])

\* lines 395-421: run the open stream, or start one; the result of
\* icystream.begin (i.connect) is not looked at, icyOpen records it
StreamStep(s, i) ==
    IF s.systemStreaming
    THEN IF i.icyTitle # ""
         THEN [Call(s, "callbackMetadata") EXCEPT !.metaTitle = i.icyTitle]
         ELSE s
    ELSE LET a == IF checkProtocol(s, s.currentIndex)
                  THEN [putSetting(
                          Call([s EXCEPT !.icyOpen = i.connect,
                                         !.icyUrl = getStreamsUrl(s, s.currentIndex)],
                               "icystream.begin"),
                          "curStream", s.currentIndex)
                        EXCEPT !.systemStreaming = TRUE]
                  ELSE Call([s EXCEPT !.currentIndex = getSetting(s, "curStream"),
                                      !.menuIndex = getSetting(s, "curStream")],
                            "oled:Missing URL")
         IN  TickleDisplay([a EXCEPT !.metaTitle = "", !.metaQueryTriggered = TRUE])

\* lines 423-431: TITLE_PIN low shows the title when the display is off
TitleStep(s, i) ==
    LET a == IF i.title THEN Call(s, "TITLE_PIN") ELSE s
    IN  IF i.title /\ ~a.displayIsOn THEN TickleDisplay(displayMeta(a)) ELSE a

\* lines 433-444: TOGGLE_PIN
ToggleStep(s, i) ==
    LET a == IF i.toggle THEN [Call(s, "TOGGLE_PIN") EXCEPT !.toggleFlag = TRUE] ELSE s
    IN  IF a.toggleFlag
        THEN StopStream(toggleToPreviousStream(
                 [a EXCEPT !.toggleFlag = FALSE, !.streamToggleOption = FALSE]))
        ELSE a

\* lines 449-465: click at zero volume enters the timer configuration
ClickZeroVolume(s) ==
    [s EXCEPT !.volLevel = getSetting(s, "volume"),
              !.volumePos = readEncoder(s),
              !.timerInSetupMode = TRUE]

\* lines 470-491: click in timer setup stores and activates the setting
ClickTimerSetup(s) ==
    LET a == [s EXCEPT !.timerInSetupMode = FALSE]
        b == IF a.timerIsRunning
             THEN putSetting(
                    putSetting([a EXCEPT !.sleepStartTime = s.millis],
                               "timerVal", timerDurationToValue(a.sleepTimerDuration)),
                    "timerOn", 1)
             ELSE putSetting(a, "timerOn", 0)
    IN  setEncoderValue(b, 100 - getSetting(b, "volume"))

\* the click with the menu open that selects the cursor whether or not the
\* toggle is armed
ClickMenuOpen_AlwaysSelects(s) ==
    LET a == StopStream([setEncoderValue(s, s.volumePos)
                           EXCEPT !.currentIndex = s.menuIndex])
    IN  [a EXCEPT !.streamSelectionMenuIsOpen = FALSE]

\* lines 496-520: click with the menu open toggles or selects
\* the menu click whose selection branch leaves currentIndex alone
ClickMenuOpen_KeepsCurrent(s) ==
    LET a == IF s.streamToggleOption
             THEN StopStream(setEncoderValue(
                      toggleToPreviousStream([s EXCEPT !.streamToggleOption = FALSE]),
                      s.volumePos))
             ELSE StopStream(setEncoderValue(s, s.volumePos))
    IN  [a EXCEPT !.streamSelectionMenuIsOpen = FALSE]

ClickMenuOpen(s) ==
    LET a == IF s.streamToggleOption
             THEN StopStream(setEncoderValue(
                      toggleToPreviousStream([s EXCEPT !.streamToggleOption = FALSE]),
                      s.volumePos))
             ELSE StopStream([setEncoderValue(s, s.volumePos)
                                EXCEPT !.currentIndex = s.menuIndex])
    IN  [a EXCEPT !.streamSelectionMenuIsOpen = FALSE]

\* lines 522-531: click with the menu closed opens it
ClickMenuClosed(s) ==
    setEncoderValue([s EXCEPT !.streamToggleOption = TRUE,
                              !.streamSelectionMenuIsOpen = TRUE,
                              !.volumePos = readEncoder(s)],
                    50)

\* the button with the test of timerInSetupMode left out
ButtonStep_NoSetupTest(s, i) ==
    IF ~i.click THEN s
    ELSE LET a == Call(s, "click")
         IN  TickleDisplay(
               IF a.volLevel = 0 THEN ClickZeroVolume(a)
               ELSE IF a.streamSelectionMenuIsOpen THEN ClickMenuOpen(a)
               ELSE ClickMenuClosed(a))

\* lines 446-537: the button
ButtonStep(s, i) ==
    IF ~i.click THEN s
    ELSE LET a == Call(s, "click")
         IN  TickleDisplay(
               IF a.volLevel = 0 THEN ClickZeroVolume(a)
               ELSE IF a.timerInSetupMode THEN ClickTimerSetup(a)
               ELSE IF a.streamSelectionMenuIsOpen THEN ClickMenuOpen(a)
               ELSE ClickMenuClosed(a))

\* the scroll without the wrap at the upper end
MenuScroll_NoUpperWrap(s) ==
    LET encoderCurrPos == readEncoder(s)
        m1 == IF encoderCurrPos > 50 THEN s.menuIndex - 1 ELSE s.menuIndex + 1
        m3 == IF m1 < 0 THEN TOTAL_ITEMS - 1 ELSE m1
    IN  [setEncoderValue(s, 50) EXCEPT !.menuIndex = m3]

\* the scroll without the wrap below slot 0
MenuScroll_NoLowerWrap(s) ==
    LET encoderCurrPos == readEncoder(s)
        m1 == IF encoderCurrPos > 50 THEN s.menuIndex - 1 ELSE s.menuIndex + 1
        m2 == IF m1 >= (TOTAL_ITEMS - 1) THEN 0 ELSE m1
    IN  [setEncoderValue(s, 50) EXCEPT !.menuIndex = m2]

\* lines 543-556: the knob scrolls the open menu
MenuScroll(s) ==
    LET encoderCurrPos == readEncoder(s)
        m1 == IF encoderCurrPos > 50 THEN s.menuIndex - 1 ELSE s.menuIndex + 1
        m2 == IF m1 >= (TOTAL_ITEMS - 1) THEN 0 ELSE m1
        m3 == IF m2 < 0 THEN TOTAL_ITEMS - 1 ELSE m2
    IN  [setEncoderValue(s, 50) EXCEPT !.menuIndex = m3]

\* lines 573-585: the knob sets the volume
\* the volume rotation storing the new level at once
VolumeTurn_Persists(s) ==
    putSetting([s EXCEPT !.volLevel = 100 - readEncoder(s), !.metaQueryTriggered = TRUE],
               "volume", 100 - readEncoder(s))

VolumeTurn(s) ==
    [s EXCEPT !.volLevel = 100 - readEncoder(s), !.metaQueryTriggered = TRUE]

\* lines 539-590: the knob
\* the rotation dispatch with the volume taken from the encoder in the
\* menu as well
RotationStep_VolumeInMenu(s) ==
    IF ~encoderChangedVal(s) THEN s
    ELSE LET a == [Call(encoderChangedUpd(s), "turn")
                     EXCEPT !.streamToggleOption = FALSE]
         IN  TickleDisplay(
               IF a.streamSelectionMenuIsOpen THEN MenuScroll(VolumeTurn(a))
               ELSE IF a.timerInSetupMode THEN changeTimerDuration(a)
               ELSE VolumeTurn(a))

RotationStep(s) ==
    IF ~encoderChangedVal(s) THEN s
    ELSE LET a == [Call(encoderChangedUpd(s), "turn")
                     EXCEPT !.streamToggleOption = FALSE]
         IN  TickleDisplay(
               IF a.streamSelectionMenuIsOpen THEN MenuScroll(a)
               ELSE IF a.timerInSetupMode THEN changeTimerDuration(a)
               ELSE VolumeTurn(a))

\* lines 393-445: the system is active, up to the test of the button
BeforeButton(s, i) == ToggleStep(TitleStep(StreamStep(s, i), i), i)

\* lines 393-537: the system is active, up to the test of the knob
BeforeRotation(s, i) == ButtonStep(ToggleStep(TitleStep(StreamStep(s, i), i), i), i)

\* lines 393-591: the system is active
ActiveStep(s, i) == RotationStep(BeforeRotation(s, i))

\* lines 612-647: the display timeout once the volume was found above zero
\* the timeout with the menu branch leaving the encoder where the
\* browsing has put it
TimeoutRest_KeepsEncoder(s) ==
    LET a == IF s.streamSelectionMenuIsOpen
             THEN [s EXCEPT !.streamSelectionMenuIsOpen = FALSE,
                            !.menuIndex = s.currentIndex]
             ELSE s
        b == IF a.metaQueryTriggered
             THEN LET q == [a EXCEPT !.metaQueryTriggered = FALSE]
                  IN  IF q.metaEnabled THEN displayMeta(q) ELSE q
             ELSE a
        c == IF b.timerInSetupMode
             THEN TickleDisplay(setEncoderValue(
                      assignTimerValsFromPrefs([b EXCEPT !.timerInSetupMode = FALSE]),
                      100 - getSetting(b, "volume")))
             ELSE b
    IN  IF c.volLevel # getSetting(c, "volume")
        THEN putSetting(c, "volume", c.volLevel)
        ELSE c

TimeoutRest(s) ==
    LET a == IF s.streamSelectionMenuIsOpen
             THEN setEncoderValue([s EXCEPT !.streamSelectionMenuIsOpen = FALSE,
                                            !.menuIndex = s.currentIndex],
                                  s.volumePos)
             ELSE s
        b == IF a.metaQueryTriggered
             THEN LET q == [a EXCEPT !.metaQueryTriggered = FALSE]
                  IN  IF q.metaEnabled THEN displayMeta(q) ELSE q
             ELSE a
        c == IF b.timerInSetupMode
             THEN TickleDisplay(setEncoderValue(
                      assignTimerValsFromPrefs([b EXCEPT !.timerInSetupMode = FALSE]),
                      100 - getSetting(b, "volume")))
             ELSE b
    IN  IF c.volLevel # getSetting(c, "volume")
        THEN putSetting(c, "volume", c.volLevel)
        ELSE c

\* line 601: the display timer has expired
\* the display test comparing the clock with baseline plus window
DisplayExpired_NoWrap(s) == s.displayIsOn /\ s.millis > s.oledStartTime + OLED_TIMER

DisplayExpired(s) == s.displayIsOn /\ USub(s.millis, s.oledStartTime) > OLED_TIMER

\* lines 604-606: blank the display
DisplayOff(s) == [s EXCEPT !.displayIsOn = FALSE, !.streamToggleOption = FALSE]

\* the display timer with a systemPowerDown that returns to its caller
DisplayStep_Returns(s) ==
    IF DisplayExpired(s)
    THEN LET a == DisplayOff(s)
         IN  TimeoutRest(IF a.volLevel = 0 THEN systemPowerDown(a) ELSE a)
    ELSE s

\* lines 593-650: the display timer; systemPowerDown does not return
\* the display timeout going on to the volume store at volume 0 as well
DisplayStep_StoresZero(s) ==
    IF DisplayExpired(s) THEN TimeoutRest(DisplayOff(s)) ELSE s

DisplayStep(s) ==
    IF DisplayExpired(s)
    THEN LET a == DisplayOff(s)
         IN  IF a.volLevel = 0 THEN systemPowerDown(a) ELSE TimeoutRest(a)
    ELSE s

\* line 657: the sleep timer deadline has passed
SleepExpired(s) == USub(s.millis, s.sleepStartTime) > s.sleepTimerDuration

\* the sleep timer with the test of timerIsRunning left out
SleepTimerStep_NoEnableTest(s) ==
    IF ~s.systemIsSleeping /\ SleepExpired(s)
    THEN TickleDisplay(Call([StopStream(s) EXCEPT !.systemIsSleeping = TRUE],
                            "oled:SLEEPING"))
    ELSE s

\* the sleep timer that leaves the stream running
SleepTimerStep_KeepsStream(s) ==
    IF ~s.systemIsSleeping /\ s.timerIsRunning /\ SleepExpired(s)
    THEN TickleDisplay(Call([s EXCEPT !.systemIsSleeping = TRUE], "oled:SLEEPING"))
    ELSE s

\* lines 652-669: the sleep timer
SleepTimerStep(s) ==
    IF ~s.systemIsSleeping /\ s.timerIsRunning /\ SleepExpired(s)
    THEN TickleDisplay(Call([StopStream(s) EXCEPT !.systemIsSleeping = TRUE],
                            "oled:SLEEPING"))
    ELSE s

\* lines 671-673: META_PIN (i.meta is TRUE when the pin is high)
MetaPinStep(s, i) ==
    [(IF i.meta THEN s ELSE Call(s, "META_PIN")) EXCEPT !.metaEnabled = i.meta]

---------------------------------------------------------------------------
(* Configuration portal (lines 675-754)                                    *)

\* a WiFiManagerParameter of length STREAM_ELEMENT_SIZE-1 keeps that many
\* characters of the value it is given
ParamValue(v) ==
    IF Len(v) > STREAM_ELEMENT_SIZE - 1 THEN SubSeq(v, 1, STREAM_ELEMENT_SIZE - 1) ELSE v

\* line 676 and callbackSaveParams: wifiMan.process() serves the web page;
\* a submitted form sets the parameter objects and calls the save callback
ProcessPortal(s, i) ==
    IF s.portalMode # PORTAL_UP THEN s
    ELSE LET a == Call(s, "wifiMan.process")
         IN  IF i.save.fire
             THEN [Call(a, "callbackSaveParams") EXCEPT !.param[2 * i.save.slot + 1] = ParamValue(i.save.tag),
                            !.param[2 * i.save.slot + 2] = ParamValue(i.save.url),
                            !.portalMode = PORTAL_SAVE]
             ELSE a

\* lines 686-713: start the portal; the parameter objects are created once
StartPortal(s) ==
    LET a == IF s.firstPortal
             THEN [s EXCEPT !.firstPortal = FALSE,
                            !.param = [k \in 1 .. 2 * TOTAL_ITEMS |->
                                         ParamValue(ReadAt(s, k))]]
             ELSE s
    IN  [Call([a EXCEPT !.webPortal = TRUE], "wifiMan.startWebPortal")
           EXCEPT !.portalMode = PORTAL_UP]

\* the copy that leaves out the last slot
RECURSIVE StoreParams_SkipsLast(_, _)
StoreParams_SkipsLast(s, item) ==
    IF item >= TOTAL_ITEMS - 1 THEN s
    ELSE StoreParams_SkipsLast(
             putStreams(s, item, s.param[2 * item + 1], s.param[2 * item + 2]),
             item + 1)

\* lines 719-722: the portal fields into streamsX
RECURSIVE StoreParams(_, _)
StoreParams(s, item) ==
    IF item >= TOTAL_ITEMS THEN s
    ELSE StoreParams(putStreams(s, item, s.param[2 * item + 1], s.param[2 * item + 2]),
                     item + 1)

\* the commit that fills streamsX and leaves the preferences alone
SavePortal_NoPersist(s, portalSwitch) ==
    LET a == StoreParams(s, 0)
        b == Call([a EXCEPT !.webPortal = FALSE], "wifiMan.stopWebPortal")
    IN  TickleDisplay([b EXCEPT !.portalMode =
                                  IF portalSwitch THEN PORTAL_IDLE ELSE PORTAL_DOWN])

\* lines 717-737: commit a pending save
\* the save commit that leaves the web server running
SavePortal_KeepsServer(s, portalSwitch) ==
    LET a == populatePrefs(StoreParams(s, 0))
    IN  TickleDisplay([a EXCEPT !.portalMode =
                                  IF portalSwitch THEN PORTAL_IDLE ELSE PORTAL_DOWN])

SavePortal(s, portalSwitch) ==
    LET a == populatePrefs(StoreParams(s, 0))
        b == Call([a EXCEPT !.webPortal = FALSE], "wifiMan.stopWebPortal")
    IN  TickleDisplay([b EXCEPT !.portalMode =
                                  IF portalSwitch THEN PORTAL_IDLE ELSE PORTAL_DOWN])

\* the forced shutdown that leaves the web server running
ClosePortal_KeepsServer(s) ==
    TickleDisplay([s EXCEPT !.portalMode = PORTAL_DOWN])

\* lines 743-753: the switch is off, force the portal down
ClosePortal(s) ==
    TickleDisplay([Call([s EXCEPT !.webPortal = FALSE], "wifiMan.stopWebPortal")
                     EXCEPT !.portalMode = PORTAL_DOWN])

\* the portal code that starts the portal whenever it is not Up
PortalStep_StartsFromIdle(s, i) ==
    LET portalSwitch == i.portalSwitch
        p == ProcessPortal(s, i)
        a == IF portalSwitch THEN Call(p, "PORTAL_PIN") ELSE p
        b == IF a.portalMode = PORTAL_IDLE /\ ~portalSwitch
             THEN [a EXCEPT !.portalMode = PORTAL_DOWN]
             ELSE a
    IN  IF portalSwitch
        THEN IF b.portalMode \in {PORTAL_DOWN, PORTAL_IDLE} THEN StartPortal(b)
             ELSE IF b.portalMode = PORTAL_SAVE THEN SavePortal(b, portalSwitch)
             ELSE b
        ELSE IF b.portalMode # PORTAL_DOWN THEN ClosePortal(b)
             ELSE b

\* lines 675-754: the portal functions
PortalStep(s, i) ==
    LET portalSwitch == i.portalSwitch
        p == ProcessPortal(s, i)
        a == IF portalSwitch THEN Call(p, "PORTAL_PIN") ELSE p
        b == IF a.portalMode = PORTAL_IDLE /\ ~portalSwitch
             THEN [a EXCEPT !.portalMode = PORTAL_DOWN]
             ELSE a
    IN  IF portalSwitch
        THEN IF b.portalMode = PORTAL_DOWN THEN StartPortal(b)
             ELSE IF b.portalMode = PORTAL_SAVE THEN SavePortal(b, portalSwitch)
             ELSE b
        ELSE IF b.portalMode # PORTAL_DOWN THEN ClosePortal(b)
             ELSE b

---------------------------------------------------------------------------
(* One pass of loop()                                                      *)

\* the clock advances by i.dt and the encoder interrupt moves the position
\* by i.rot since the previous pass; every millis() of the pass reads the
\* same value
EnterLoop(s, i) ==
    readEncoderISR([s EXCEPT !.millis = (@ + i.dt) % ULONG_MOD, !.log = << >>], i.rot)

\* lines 374-591: the pass up to the display timer
InputStep(s, i) ==
    LET s0 == EnterLoop(s, i)
    IN  IF s0.systemIsSleeping THEN WakeStep(s0, i) ELSE ActiveStep(s0, i)

\* lines 374-650: the pass up to the sleep timer
TimeoutStep(s, i) == DisplayStep(InputStep(s, i))

\* lines 652-754: the rest of the pass, which a suspended CPU does not run
AfterTimeout(s, i) ==
    IF s.cpu = "suspended" THEN s
    ELSE PortalStep(MetaPinStep(SleepTimerStep(s), i), i)

loop(s, i) == AfterTimeout(TimeoutStep(s, i), i)

\* lines 374-673: the pass up to the portal code
BeforePortal(s, i) == MetaPinStep(SleepTimerStep(TimeoutStep(s, i)), i)

\* lines 1303-1306: the wake edge ends the light sleep; the wake sources are
\* cleared and the CPU restarts, which runs setup() again
resume(s, pins) ==
    LET b == setup(s.prefs, pins)
    IN  [b EXCEPT !.log = << "esp_sleep_disable_wakeup_source", "esp_restart" >> \o @]

---------------------------------------------------------------------------
(* Inputs                                                                  *)

NoSave == [fire |-> FALSE, slot |-> 0, tag |-> "", url |-> ""]

\* what a web user may submit for one slot
Edits ==
    { [fire |-> TRUE, slot |-> k, tag |-> "", url |-> ""] : k \in Slots }

\* the pass that reads nothing: no click, no turn, all pins at their pull-ups;
\* a stream that is started connects
Quiet ==
    [ click |-> FALSE, rot |-> 0, toggle |-> FALSE, title |-> FALSE, meta |-> TRUE,
      icyTitle |-> "", connect |-> TRUE, portalSwitch |-> FALSE, save |-> NoSave,
      dt |-> 0 ]

\* between two passes the clock stands still or advances by half its
\* period (longer than the display window and every timer duration), so
\* the clock never stops and takes two values
ClockStep == 2 ^ (ClockBits - 1)

TimeSteps == {0, ClockStep}

\* the number of events a pass reads
Events(i) ==
    (IF i.click THEN 1 ELSE 0) + (IF i.rot # 0 THEN 1 ELSE 0)
    + (IF i.toggle THEN 1 ELSE 0) + (IF i.icyTitle # "" THEN 1 ELSE 0)
    + (IF i.save.fire THEN 1 ELSE 0)

Turns == {0 - EncJump, 0, EncJump}

\* the inputs of one pass: button, knob, TOGGLE_PIN, portal switch, portal
\* form and clock advance, each drawn from the given set
Inputs(clicks, turns, toggles, switches, saves, steps) ==
    { i \in { [Quiet EXCEPT !.click = c, !.rot = r, !.toggle = g,
                            !.portalSwitch = p, !.save = e, !.dt = d] :
                c \in clicks, r \in turns, g \in toggles, p \in switches,
                e \in saves, d \in steps } :
        Events(i) <= MaxEvents }

\* the knob, the button and TOGGLE_PIN, with the portal switch open
UserInputs == Inputs(BOOLEAN, Turns, BOOLEAN, {FALSE}, {NoSave}, TimeSteps)

\* the same with the portal switch open or closed
PanelInputs == Inputs(BOOLEAN, Turns, BOOLEAN, BOOLEAN, {NoSave}, TimeSteps)

\* the knob, the button, TOGGLE_PIN and the portal with its form, within
\* one millisecond of the clock
StationInputs == Inputs(BOOLEAN, Turns, BOOLEAN, BOOLEAN, {NoSave} \cup Edits, {0})

\* the knob, TOGGLE_PIN and the portal with its form, the button left alone
LiveInputs == Inputs({FALSE}, Turns, BOOLEAN, BOOLEAN, {NoSave} \cup Edits, TimeSteps)

\* the knob, the button and TOGGLE_PIN within one millisecond of the clock,
\* with a server that accepts or refuses the connection of icystream.begin
ConnectInputs ==
    { [i EXCEPT !.connect = c] :
        i \in Inputs(BOOLEAN, Turns, BOOLEAN, {FALSE}, {NoSave}, {0}), c \in BOOLEAN }

BootPins == { [stream |-> FALSE, start |-> b] : b \in BOOLEAN }

\* station strings around the field size: a url of 49 characters, one of 50
\* and a tag of 55
StoreUrl49 == "http://0123456789012345678901234567890123456789ab"

StoreUrl50 == StoreUrl49 \o "c"

StoreTag55 == "01234567890123456789012345678901234567890123456789tag55"

StoreTags == { "Jazz", StoreTag55 }

StoreUrls == { StoreUrl49, StoreUrl50 }

\* what a web user may type into the form of one slot
StoreEdits ==
    { [fire |-> TRUE, slot |-> k, tag |-> g, url |-> u] :
        k \in Slots, g \in StoreTags, u \in StoreUrls }

\* the passes that reach the portal code: PORTAL_PIN high, or low with or
\* without a form submitted
StoreInputs ==
    { Quiet } \cup
    { [Quiet EXCEPT !.portalSwitch = TRUE, !.save = e] : e \in {NoSave} \cup StoreEdits }

---------------------------------------------------------------------------
(* Specification                                                           *)

\* the state between two steps, with the log of the step put away
Settle(s) == [s EXCEPT !.log = << >>]

Init == \E pins \in BootPins : st = Settle(setup(BlankPrefs, pins))

Tick(i) ==
    /\ st.cpu = "running"
    /\ st' = Settle(loop(st, i))

WakeEdge ==
    /\ st.cpu = "suspended"
    /\ st.wakeArmed
    /\ \E pins \in BootPins : st' = Settle(resume(st, pins))

Next ==
    \/ \E i \in UserInputs : Tick(i)
    \/ WakeEdge

Spec == Init /\ [][Next]_vars

\* the same listener, who also closes and opens the portal switch
NextPanel ==
    \/ \E i \in PanelInputs : Tick(i)
    \/ WakeEdge

SpecPanel == Init /\ [][NextPanel]_vars

\* the station list edited through the portal, and stations selected
NextStations == \E i \in StationInputs : Tick(i)

SpecStations == Init /\ [][NextStations]_vars

\* stations selected while the servers accept or refuse the connection
NextConnect == \E i \in ConnectInputs : Tick(i)

SpecConnect == Init /\ [][NextConnect]_vars

\* the station store on its own: putStreams with strings of any length, the
\* two copies between streamsX and the preferences, and the portal code
\* with PORTAL_PIN low
InitStore ==
    \E after \in {"", "~"} :
        st = [Settle(setup(BlankPrefs, [stream |-> FALSE, start |-> FALSE]))
                EXCEPT !.memAfter = after]

PutStation ==
    \E k \in {0, TOTAL_ITEMS - 1}, g \in StoreTags, u \in StoreUrls :
        st' = putStreams(st, k, g, u)

Persist == st' = Settle(populatePrefs(st))

Reload == st' = PopulateFrom(st, 0)

PortalPass == \E i \in StoreInputs : st' = Settle(PortalStep(st, i))

NextStore == PutStation \/ Persist \/ Reload \/ PortalPass

SpecStore == InitStore /\ [][NextStore]_vars

\* the seeding of a blank store by populateStreams (lines 1162-1171), one
\* write to the flash at a time: the marker, the tag and the url of every
\* slot, the current stream and the two timer defaults
SeedLen == 2 * TOTAL_ITEMS + 4

SeedWrite(prefs, j) ==
    IF j = 1 THEN [prefs EXCEPT !.initPref = TRUE]
    ELSE IF j <= 2 * TOTAL_ITEMS + 1
    THEN LET item == (j - 2) \div 2
         IN  IF (j - 2) % 2 = 0
             THEN [prefs EXCEPT !.stations[item + 1].tag = stream_data[item + 1].tag]
             ELSE [prefs EXCEPT !.stations[item + 1].url = stream_data[item + 1].url]
    ELSE IF j = 2 * TOTAL_ITEMS + 2 THEN [prefs EXCEPT !.curStream = 0]
    ELSE IF j = 2 * TOTAL_ITEMS + 3 THEN [prefs EXCEPT !.timerOn = 1]
    ELSE [prefs EXCEPT !.timerVal = 0]

\* a reset: setup() runs; a store without the marker is seeded write by
\* write, a store with the marker is loaded as it is
BootEntry(prefs, pins) ==
    IF ~prefs.initPref /\ ~pins.stream
    THEN [Globals(prefs) EXCEPT !.cpu = "setup", !.log = << >>]
    ELSE Settle(setup(prefs, pins))

InitBoot == \E pins \in BootPins : st = BootEntry(BlankPrefs, pins)

SeedWriteStep ==
    /\ st.cpu = "setup"
    /\ st.seedWrites < SeedLen
    /\ st' = [st EXCEPT !.prefs = SeedWrite(@, st.seedWrites + 1),
                        !.seedWrites = @ + 1]

\* the seeding is complete; the rest of setup() runs
SeedDone ==
    /\ st.cpu = "setup"
    /\ st.seedWrites = SeedLen
    /\ \E pins \in BootPins : st' = Settle(setup(st.prefs, pins))

\* a reset or a loss of power, at any point
ResetBoot == \E pins \in BootPins : st' = BootEntry(st.prefs, pins)

\* the button and the knob within one millisecond of the clock
BootInputs == Inputs(BOOLEAN, Turns, {FALSE}, {FALSE}, {NoSave}, {0})

NextBoot ==
    \/ SeedWriteStep
    \/ SeedDone
    \/ ResetBoot
    \/ \E i \in BootInputs : Tick(i)

SpecBoot == InitBoot /\ [][NextBoot]_vars

\* lines 548-555: the menu scroll after the read of the encoder at line 547
MenuScrollAfterRead(s, encoderCurrPos) ==
    LET m1 == IF encoderCurrPos > 50 THEN s.menuIndex - 1 ELSE s.menuIndex + 1
        m2 == IF m1 >= (TOTAL_ITEMS - 1) THEN 0 ELSE m1
        m3 == IF m2 < 0 THEN TOTAL_ITEMS - 1 ELSE m2
    IN  [setEncoderValue(s, 50) EXCEPT !.menuIndex = m3]

\* the button and the knob, the clock standing still
ScrollInputs == Inputs(BOOLEAN, Turns, {FALSE}, {FALSE}, {NoSave}, {0})

\* a pass of loop() of an Awake system with the menu open that finds the
\* knob turned, up to and including the read of the encoder at line 547
ScrollRead(s, i) ==
    LET b == BeforeRotation(EnterLoop(s, i), i)
        a == [Call(encoderChangedUpd(b), "turn") EXCEPT !.streamToggleOption = FALSE]
    IN  [a EXCEPT !.pc = "scroll", !.encoderCurrPos = readEncoder(a)]

\* the rest of that pass, from line 548 on
ScrollRest(s, i) ==
    LET m == TickleDisplay(MenuScrollAfterRead(s, s.encoderCurrPos))
    IN  [AfterTimeout(DisplayStep(m), i) EXCEPT !.pc = "loop", !.encoderCurrPos = 0]

ScrollBegin ==
    /\ st.cpu = "running" /\ st.pc = "loop"
    /\ ~st.systemIsSleeping
    /\ \E i \in ScrollInputs :
           LET b == BeforeRotation(EnterLoop(st, i), i)
           IN  /\ encoderChangedVal(b)
               /\ b.streamSelectionMenuIsOpen
               /\ st' = ScrollRead(st, i)

ScrollEnd ==
    /\ st.pc = "scroll"
    /\ \E i \in ScrollInputs : st' = Settle(ScrollRest(st, i))

\* the encoder interrupt, between any two statements of loop()
EncoderInterrupt ==
    \E delta \in Turns \ {0} : st' = readEncoderISR(st, delta)

ScrollPass ==
    /\ st.pc = "loop"
    /\ \E i \in ScrollInputs : Tick(i)

NextScroll ==
    \/ ScrollPass
    \/ ScrollBegin
    \/ EncoderInterrupt
    \/ ScrollEnd

SpecScroll == Init /\ [][NextScroll]_vars

\* the preferences of a radio that has been in use: the stations seeded, a
\* volume stored by the display timeout (line 646) and the sleep timer
\* disabled in timer setup (line 486)
TimerOffPrefs ==
    [setup(BlankPrefs, [stream |-> FALSE, start |-> FALSE]).prefs
       EXCEPT !.volume = ENC_MAX, !.timerOn = 0]

\* a reset of that radio
InitLive == \E pins \in BootPins : st = Settle(setup(TimerOffPrefs, pins))

\* loop() is called again for as long as the CPU runs, and the clock
\* advances: the pass that reads no input and finds the clock advanced
\* keeps happening
\* one pass of loop(), the log of the pass kept in the state; the pass is
\* taken part by part, each part evaluated once
Pass(i) ==
    /\ st.cpu = "running"
    /\ \E a \in {InputStep(st, i)} :
         \E d \in {DisplayStep(a)} :
            st' = AfterTimeout(d, i)

QuietPass == Pass([Quiet EXCEPT !.dt = ClockStep])

NextLive ==
    \/ \E i \in LiveInputs : Pass(i)
    \/ WakeEdge

SpecLive == InitLive /\ [][NextLive]_vars /\ WF_vars(QuietPass)

---------------------------------------------------------------------------
(* Properties                                                              *)

InLog(s, c) == \E k \in 1 .. Len(s.log) : s.log[k] = c

EndsWith(log, tail) ==
    /\ Len(log) >= Len(tail)
    /\ SubSeq(log, Len(log) - Len(tail) + 1, Len(log)) = tail

\* how many times the call c is in the log
CountLog(s, c) == Cardinality({ k \in 1 .. Len(s.log) : s.log[k] = c })

\* the string a is the beginning of the string b
IsPrefix(a, b) == Len(a) <= Len(b) /\ (Len(a) = 0 \/ SubSeq(b, 1, Len(a)) = a)

\* the latest step has read an input of the listener
InputRead(s) ==
    \E k \in 1 .. Len(s.log) :
        s.log[k] \in { "click", "turn", "TOGGLE_PIN", "TITLE_PIN", "META_PIN",
                       "PORTAL_PIN", "callbackSaveParams" }

\* the calls of the power-down, in the order of the source
PowerDownCalls ==
    << "icystream.end", "putSetting:woc", "esp_sleep_enable_ext0_wakeup",
       "esp_wifi_stop", "esp_light_sleep_start" >>

\* the choice shown in timer setup: a duration, or 0 for 'disabled'
Pending(s) == IF s.timerIsRunning THEN s.sleepTimerDuration ELSE 0

TimerCycle == << MS1HOUR, MS2HOUR, MS4HOUR, MS6HOUR, MS8HOUR, MS12HOUR, 0 >>

CycleNext(c) ==
    LET k == CHOOSE x \in 1 .. Len(TimerCycle) : TimerCycle[x] = c
    IN  TimerCycle[(k % Len(TimerCycle)) + 1]

\* C1: after any sequence of clicks, turns, TOGGLE_PIN pulses, display
\* timeouts and sleep-timer expiries, the stream selection menu is never
\* open while the timer is in setup mode.
C1_MenuSetupExclusive ==
    ~(st.streamSelectionMenuIsOpen /\ st.timerInSetupMode)

\* the timer has been set up and stored by earlier clicks, and now a click
\* has opened the menu
C1_Witness ==
    /\ st.streamSelectionMenuIsOpen
    /\ st.prefs.timerVal # 0


\* C2: when the display timeout fires while the volume is 0, the power-down
\* runs in this order: the stream is stopped and playback is Idle, the system
\* is marked Asleep, the button-edge wake source is armed, WiFi is stopped,
\* the CPU is suspended; the pass ends there, with no later step of the
\* timeout handler or of the loop executed; and the wake edge clears the wake
\* sources and restarts the program from setup().
C2_PowerDownOrder ==
    /\ \A i \in UserInputs :
         LET a == InputStep(st, i)
             t == PowerDownSteps(DisplayOff(a))
         IN  (st.cpu = "running" /\ DisplayExpired(a) /\ a.volLevel = 0) =>
               /\ ~t[1].icyOpen /\ ~t[1].systemStreaming
               /\ t[1].systemIsSleeping = a.systemIsSleeping
               /\ t[2].systemIsSleeping /\ ~t[2].wakeArmed
               /\ t[4].wakeArmed /\ t[4].wifiOn
               /\ ~t[5].wifiOn /\ t[5].cpu = "running"
               /\ t[6].cpu = "suspended"
               /\ t[6].log = a.log \o PowerDownCalls
               /\ AfterTimeout(DisplayStep(a), i) = t[6]
    /\ st.cpu = "suspended" =>
         \A pins \in BootPins :
             LET r == resume(st, pins)
             IN  /\ SubSeq(r.log, 1, 3) =
                      << "esp_sleep_disable_wakeup_source", "esp_restart", "setup" >>
                 /\ r.cpu = "running" /\ ~r.wakeArmed /\ r.wifiOn

\* the volume was stored above zero and then turned to 0, and the display
\* timeout has powered the system down
C2_Witness ==
    /\ st.cpu = "suspended" /\ st.wakeArmed /\ ~st.wifiOn
    /\ st.volLevel = 0 /\ st.prefs.volume # 0

\* C3: if the volume is 0 and no further button, rotation or pin input
\* arrives, then with passes continuing and the clock advancing the system
\* eventually enters power-down, whatever the station data and the
\* persisted settings.
C3_ZeroVolumePowersDown ==
    (st.cpu = "running" /\ st.volLevel = 0) ~> (st.cpu = "suspended" \/ InputRead(st))

\* C4: an Awake system becomes Asleep only when the display timeout has
\* fired at volume 0 and the system has powered down, or when the sleep
\* timer deadline has passed with the timer enabled; whatever click, turn,
\* TOGGLE_PIN pulse or portal step the pass has seen, it sets Asleep in no
\* other way.
C4_AsleepOnlyByTimeoutOrTimer ==
    [][ (~st.systemIsSleeping /\ st'.systemIsSleeping) =>
          \/ /\ st'.cpu = "suspended"
             /\ st'.volLevel = 0
             /\ ~st'.displayIsOn /\ USub(st'.millis, st'.oledStartTime) > OLED_TIMER
          \/ /\ st'.cpu = "running"
             /\ st'.timerIsRunning /\ SleepExpired(st')
             /\ ~st'.systemStreaming ]_vars

\* the sleep timer has expired: the system is Asleep with the CPU running
\* and the display re-armed
C4_Witness ==
    /\ st.cpu = "running" /\ st.systemIsSleeping
    /\ st.timerIsRunning /\ SleepExpired(st)
    /\ st.displayIsOn /\ st.oledStartTime = st.millis

\* C5: when the system is Asleep with the CPU running (the sleep timer has
\* expired), a click or a turn of the knob returns it to Awake in that pass
\* without a restart and sets the sleep timer baseline to the time of the
\* wake; the baseline only ever moves to the current time, and the timer
\* puts the system to sleep only when more than the duration has elapsed
\* since the baseline.
C5_WakeResetsBaseline ==
    \A i \in UserInputs :
        LET e == EnterLoop(st, i)
            d == TimeoutStep(st, i)
            n == AfterTimeout(d, i)
        IN  st.cpu = "running" =>
              /\ (st.systemIsSleeping /\ (i.click \/ encoderChangedVal(e))) =>
                    /\ ~n.systemIsSleeping /\ n.cpu = "running"
                    /\ ~InLog(n, "esp_light_sleep_start") /\ ~InLog(n, "setup")
                    /\ n.sleepStartTime = n.millis
                    /\ InLog(n, "oled:WAKE UP")
              /\ n.sleepStartTime # st.sleepStartTime => n.sleepStartTime = n.millis
              /\ (n.systemIsSleeping /\ ~d.systemIsSleeping) =>
                    USub(n.millis, n.sleepStartTime) > n.sleepTimerDuration

\* the sleep timer has put the system to sleep, and a turn of the knob
\* wakes it
C5_Witness ==
    /\ st.cpu = "running" /\ st.systemIsSleeping
    /\ st.timerIsRunning /\ SleepExpired(st) /\ st.displayIsOn
    /\ \E i \in UserInputs :
          /\ encoderChangedVal(EnterLoop(st, i))
          /\ InLog(loop(st, i), "oled:WAKE UP")

\* C6: a click processed while the volume is 0 and timer setup is not active
\* makes timer setup Active, leaves the menu closed and sets the volume to
\* the persisted volume, which is not zero.
C6_ClickAtZeroVolume ==
    \A i \in UserInputs :
        LET n == loop(st, i)
        IN  (st.cpu = "running" /\ ~st.systemIsSleeping /\ i.click
             /\ st.volLevel = 0 /\ ~st.timerInSetupMode) =>
              /\ n.timerInSetupMode /\ ~n.streamSelectionMenuIsOpen
              /\ n.volLevel = st.prefs.volume
              /\ n.volLevel # 0

\* C7: every click processed while timer setup is Active leaves setup and
\* stores the pending choice: the stored timer settings encode the pending
\* enabled flag and, when enabled, the pending duration, and
\* assignTimerValsFromPrefs reads the same flag and duration back.
C7_ClickInSetupCommits ==
    \A i \in UserInputs :
        LET n == loop(st, i)
            r == assignTimerValsFromPrefs(n)
        IN  (st.cpu = "running" /\ ~st.systemIsSleeping /\ i.click
             /\ st.timerInSetupMode) =>
              /\ ~n.timerInSetupMode
              /\ n.prefs.timerOn = (IF st.timerIsRunning THEN 1 ELSE 0)
              /\ r.timerIsRunning = st.timerIsRunning
              /\ st.timerIsRunning =>
                    /\ n.prefs.timerVal = timerDurationToValue(st.sleepTimerDuration)
                    /\ r.sleepTimerDuration = st.sleepTimerDuration

\* C8 (as stated): each turn of the knob while timer setup is Active advances
\* the pending choice one step in the cycle 1h, 2h, 4h, 6h, 8h, 12h,
\* disabled, 1h.
C8_EveryTurnAdvances ==
    \A i \in UserInputs :
        LET e == EnterLoop(st, i)
            n == loop(st, i)
        IN  (st.cpu = "running" /\ st.timerInSetupMode /\ ~i.click
             /\ encoderChangedVal(e)) =>
              Pending(n) = CycleNext(Pending(st))

\* C8: while the system is Awake, each turn of the knob that loop() finds
\* with timer setup Active advances the pending choice one step in the cycle
\* 1h, 2h, 4h, 6h, 8h, 12h, disabled, 1h, in either direction of the turn;
\* the cycle has 7 members and setup stays Active.
C8_AwakeTurnAdvances ==
    \A i \in UserInputs :
        LET b == BeforeRotation(EnterLoop(st, i), i)
            n == loop(st, i)
        IN  (st.cpu = "running" /\ ~st.systemIsSleeping /\ b.timerInSetupMode
             /\ encoderChangedVal(b)) =>
              /\ \E x \in 1 .. Len(TimerCycle) : TimerCycle[x] = Pending(b)
              /\ Pending(n) = CycleNext(Pending(b))
              /\ n.timerInSetupMode
              /\ Cardinality({ TimerCycle[x] : x \in 1 .. Len(TimerCycle) }) = 7

\* a turn in timer setup has gone from 12 hours to 'disabled'
C8_Witness ==
    /\ st.timerInSetupMode /\ ~st.systemIsSleeping
    /\ ~st.timerIsRunning /\ st.prefs.timerOn = 1

\* C9: when the display timeout fires while timer setup is Active, setup
\* becomes Inactive, the timer flag and duration in memory are set back to
\* the persisted values, the persisted timer settings are not written, and
\* the display is On with its timer re-armed.
C9_TimeoutCancelsSetup ==
    \A i \in UserInputs :
        LET a == InputStep(st, i)
            n == AfterTimeout(DisplayStep(a), i)
        IN  (st.cpu = "running" /\ DisplayExpired(a) /\ a.timerInSetupMode) =>
              /\ ~n.timerInSetupMode
              /\ n.timerIsRunning = (st.prefs.timerOn = 1)
              /\ n.sleepTimerDuration = assignTimerValsFromPrefs(st).sleepTimerDuration
              /\ n.prefs.timerOn = st.prefs.timerOn
              /\ n.prefs.timerVal = st.prefs.timerVal
              /\ n.displayIsOn /\ n.oledStartTime = n.millis

\* C10: in an Awake pass that finds no stream open and the current slot's
\* url not starting with "http://", no stream is started, playback stays
\* Idle, the persisted current station is not written, and currentIndex and
\* the menu cursor are set to the persisted current station (where they
\* stay unless the same pass reads an input).
C10_InvalidUrlReverts ==
    \A i \in StationInputs :
        LET e == EnterLoop(st, i)
            a == StreamStep(e, i)
            n == loop(st, i)
        IN  (st.cpu = "running" /\ ~st.systemIsSleeping /\ ~st.systemStreaming
             /\ ~checkProtocol(st, st.currentIndex)) =>
              /\ a.currentIndex = st.prefs.curStream
              /\ a.menuIndex = st.prefs.curStream
              /\ ~a.systemStreaming
              /\ ~InLog(n, "icystream.begin")
              /\ InLog(n, "oled:Missing URL")
              /\ ~n.systemStreaming /\ ~n.icyOpen
              /\ n.prefs.curStream = st.prefs.curStream
              /\ ~InputRead(n) =>
                    /\ n.currentIndex = st.prefs.curStream
                    /\ n.menuIndex = st.prefs.curStream

\* a slot blanked through the portal has been selected in the menu, while
\* the persisted station has a valid url
C10_Witness ==
    /\ st.cpu = "running" /\ ~st.systemIsSleeping /\ ~st.systemStreaming
    /\ ~checkProtocol(st, st.currentIndex)
    /\ st.currentIndex # st.prefs.curStream
    /\ checkProtocol(st, st.prefs.curStream)

\* C11: when icystream.begin returns false for a url that passed the
\* protocol check, the pass does not enter Streaming, does not store the
\* index as current station, and sets currentIndex back to the stored
\* current station, as it does for an invalid url.
C11_ConnectFailureReverts ==
    \A i \in ConnectInputs :
        LET e == EnterLoop(st, i)
            a == StreamStep(e, i)
        IN  (st.cpu = "running" /\ ~st.systemIsSleeping /\ ~st.systemStreaming
             /\ checkProtocol(st, st.currentIndex) /\ ~i.connect) =>
              /\ ~a.systemStreaming
              /\ ~InLog(a, "putSetting:curStream")
              /\ a.prefs.curStream = st.prefs.curStream
              /\ a.currentIndex = st.prefs.curStream

\* C12: a pass of loop() writes the stored current station only in the
\* stream start (line 404), once, and with the index whose url passed
\* checkProtocol in that pass; a menu selection, a toggle or a revert does
\* not write it, and the stored value changes in no other way.
C12_CurStreamWrittenAtStart ==
    \A i \in StationInputs :
        LET e == EnterLoop(st, i)
            a == IF e.systemIsSleeping THEN e ELSE StreamStep(e, i)
            n == loop(st, i)
        IN  st.cpu = "running" =>
              /\ CountLog(n, "putSetting:curStream") = CountLog(a, "putSetting:curStream")
              /\ InLog(n, "putSetting:curStream") =>
                    /\ ~st.systemIsSleeping /\ ~st.systemStreaming
                    /\ checkProtocol(e, e.currentIndex)
                    /\ CountLog(n, "putSetting:curStream") = 1
                    /\ InLog(n, "icystream.begin")
                    /\ n.prefs.curStream = e.currentIndex
              /\ ~InLog(n, "putSetting:curStream") => n.prefs.curStream = st.prefs.curStream

\* a station other than the first has been started and stored, while
\* another slot has no valid url
C12_Witness ==
    /\ st.systemStreaming /\ st.prefs.curStream # 0
    /\ st.prefs.curStream = st.currentIndex
    /\ \E k \in Slots : ~checkProtocol(st, k)

\* C13: a click found with the menu open and the toggle armed swaps the
\* current and the previous station: currentIndex becomes the stored
\* previous index, the stored previous index becomes the old currentIndex,
\* the menu closes with the cursor not taken as the selection, the encoder
\* is set back to the position it had before the menu, and the stream is
\* stopped, so that the next pass of an Awake system starts the stream of
\* the new currentIndex.
C13_ArmedClickSwaps ==
    \A i \in UserInputs :
        LET b == BeforeButton(EnterLoop(st, i), i)
            c == ButtonStep(b, i)
            n == loop(st, i)
            q == loop(n, Quiet)
        IN  (st.cpu = "running" /\ ~st.systemIsSleeping /\ i.click
             /\ b.streamSelectionMenuIsOpen /\ b.streamToggleOption) =>
              /\ c.currentIndex = b.prefs.prvStream
              /\ c.prefs.prvStream = b.currentIndex
              /\ ~c.streamSelectionMenuIsOpen /\ ~c.streamToggleOption
              /\ c.menuIndex = b.menuIndex
              /\ c.encoderPos = b.volumePos /\ ~encoderChangedVal(c)
              /\ ~c.systemStreaming /\ ~c.icyOpen /\ InLog(c, "icystream.end")
              /\ n.currentIndex = c.currentIndex /\ n.prefs.prvStream = c.prefs.prvStream
              /\ ~n.systemStreaming /\ ~n.streamSelectionMenuIsOpen
              /\ (n.cpu = "running" /\ ~n.systemIsSleeping) =>
                    /\ q.systemStreaming /\ q.icyOpen
                    /\ q.currentIndex = n.currentIndex
                    /\ q.icyUrl = getStreamsUrl(n, n.currentIndex)

\* the menu is open with the toggle armed, the stored previous station is
\* not the current one and not the cursor, and a click swaps the two
C13_Witness ==
    /\ st.cpu = "running" /\ ~st.systemIsSleeping
    /\ st.streamSelectionMenuIsOpen /\ st.streamToggleOption
    /\ st.prefs.prvStream # st.currentIndex
    /\ st.prefs.prvStream # st.menuIndex
    /\ \E i \in UserInputs :
          /\ i.click
          /\ loop(st, i).currentIndex = st.prefs.prvStream
          /\ loop(st, i).prefs.prvStream = st.currentIndex

\* C14: after a pass that has changed the station, by a menu selection or
\* by a toggle, two clicks with no turn of the knob in between switch back
\* to the station that was current before the change.
C14_DoublePressGoesBack ==
    \A i \in UserInputs :
        LET click == [Quiet EXCEPT !.click = TRUE]
            n1 == loop(st, i)
            n2 == loop(n1, click)
            n3 == loop(n2, click)
        IN  (st.cpu = "running" /\ ~st.systemIsSleeping
             /\ n1.cpu = "running" /\ ~n1.systemIsSleeping
             /\ n1.currentIndex # st.currentIndex
             /\ ~n1.streamSelectionMenuIsOpen /\ ~n1.timerInSetupMode
             /\ n1.volLevel # 0) =>
              /\ n2.streamSelectionMenuIsOpen /\ n2.streamToggleOption
              /\ n3.currentIndex = st.currentIndex

\* C15: one low pulse on TOGGLE_PIN switches to the previous stream once,
\* whether it spans one pass of loop() or two consecutive passes: at the end
\* of the pulse the current and the stored previous index are swapped a
\* single time and the stream has been stopped for a restart a single time.
C15_PulseTogglesOnce ==
    LET low == [Quiet EXCEPT !.toggle = TRUE]
        n1 == loop(st, low)
        n2 == loop(n1, low)
    IN  (st.cpu = "running" /\ ~st.systemIsSleeping
         /\ n1.cpu = "running" /\ ~n1.systemIsSleeping) =>
          /\ n1.currentIndex = st.prefs.prvStream
          /\ n1.prefs.prvStream = st.currentIndex
          /\ CountLog(n1, "icystream.end") = 1
          /\ n2.currentIndex = st.prefs.prvStream
          /\ n2.prefs.prvStream = st.currentIndex
          /\ CountLog(n1, "icystream.end") + CountLog(n2, "icystream.end") = 1

\* C16: the menu cursor wraps at both ends of the station list: a turn
\* toward 'previous' (encoder above 50) with the cursor on slot 0 puts it on
\* slot TOTAL_ITEMS-1, and a turn toward 'next' with the cursor on slot
\* TOTAL_ITEMS-1 puts it on slot 0; the cursor stays inside the list.
C16_CursorWrapsAtEnds ==
    \A i \in UserInputs :
        LET b == BeforeRotation(EnterLoop(st, i), i)
            r == RotationStep(b)
            n == loop(st, i)
        IN  (st.cpu = "running" /\ ~st.systemIsSleeping
             /\ b.streamSelectionMenuIsOpen /\ encoderChangedVal(b)) =>
              /\ (readEncoder(b) > 50 /\ b.menuIndex = 0) =>
                    r.menuIndex = TOTAL_ITEMS - 1
              /\ (readEncoder(b) <= 50 /\ b.menuIndex = TOTAL_ITEMS - 1) =>
                    r.menuIndex = 0
              /\ r.menuIndex \in Slots
              /\ n.menuIndex = r.menuIndex /\ n.streamSelectionMenuIsOpen

\* the cursor has gone from slot 0 back to the last slot, and a turn
\* forward puts it on slot 0
C16_Witness ==
    /\ st.cpu = "running" /\ ~st.systemIsSleeping
    /\ st.streamSelectionMenuIsOpen /\ st.menuIndex = TOTAL_ITEMS - 1
    /\ st.currentIndex = 0
    /\ \E i \in UserInputs :
          /\ i.rot < 0
          /\ loop(st, i).menuIndex = 0
          /\ loop(st, i).streamSelectionMenuIsOpen

\* C17: each scroll of the open menu moves the cursor by one slot modulo
\* TOTAL_ITEMS: a turn toward 'next' from slot k gives (k + 1) mod
\* TOTAL_ITEMS and a turn toward 'previous' gives (k - 1) mod TOTAL_ITEMS,
\* so that a step forward followed by a step back returns the cursor.
C17_ScrollStepsByOne ==
    \A i \in UserInputs :
        LET b == BeforeRotation(EnterLoop(st, i), i)
            r == RotationStep(b)
            back == RotationStep(readEncoderISR(r, EncJump))
        IN  (st.cpu = "running" /\ ~st.systemIsSleeping
             /\ b.streamSelectionMenuIsOpen /\ encoderChangedVal(b)) =>
              /\ readEncoder(b) > 50 =>
                    r.menuIndex = (b.menuIndex - 1) % TOTAL_ITEMS
              /\ readEncoder(b) <= 50 =>
                    /\ r.menuIndex = (b.menuIndex + 1) % TOTAL_ITEMS
                    /\ back.menuIndex = b.menuIndex

\* C18: with PORTAL_PIN held low, a pass that finds the portal Down starts
\* the web server and leaves the portal Up; when the save callback fires
\* with the portal Up the mode becomes PORTAL_SAVE, and the portal code that
\* follows copies every tag and url field of the form into streamsX, stores
\* all stations in the preferences, stops the web server and, the pin still
\* low, ends in PORTAL_IDLE, not in PORTAL_DOWN.
C18_PortalSaveEndsIdle ==
    \A i \in StationInputs :
        LET m == BeforePortal(st, i)
            p == ProcessPortal(m, i)
            n == loop(st, i)
        IN  (st.cpu = "running" /\ m.cpu = "running" /\ i.portalSwitch) =>
              /\ m.portalMode = PORTAL_DOWN =>
                    /\ n.portalMode = PORTAL_UP /\ n.webPortal
                    /\ EndsWith(n.log, << "PORTAL_PIN", "wifiMan.startWebPortal" >>)
                    /\ n.streamsX = m.streamsX /\ n.prefs = m.prefs
              /\ (m.portalMode = PORTAL_UP /\ i.save.fire) =>
                    /\ p.portalMode = PORTAL_SAVE
                    /\ p.param[2 * i.save.slot + 1] = i.save.tag
                    /\ p.param[2 * i.save.slot + 2] = i.save.url
                    /\ \A k \in 1 .. 2 * TOTAL_ITEMS : n.streamsX[k] = p.param[k]
                    /\ \A k \in Slots :
                          n.prefs.stations[k + 1] =
                            [tag |-> p.param[2 * k + 1], url |-> p.param[2 * k + 2]]
                    /\ EndsWith(n.log, << "wifiMan.process", "callbackSaveParams",
                                          "PORTAL_PIN", "populatePrefs",
                                          "wifiMan.stopWebPortal" >>)
                    /\ ~n.webPortal
                    /\ n.portalMode = PORTAL_IDLE

\* a save with the pin low has blanked a station in streamsX and in the
\* preferences, and the portal is idle
C18_Witness ==
    /\ st.portalMode = PORTAL_IDLE /\ ~st.webPortal /\ ~st.firstPortal
    /\ \E k \in Slots :
          /\ getStreamsUrl(st, k) = ""
          /\ st.prefs.stations[k + 1] = [tag |-> "", url |-> ""]

\* C19: once the save callback has set PORTAL_SAVE, the portal code that
\* follows commits the form: it copies all fields into streamsX, stores them
\* in the preferences and then stops the web server, ending in PORTAL_IDLE
\* when PORTAL_PIN is still low and in PORTAL_DOWN when it has been
\* released; the save is never dropped.
C19_SaveNeverDropped ==
    \A i \in StationInputs :
        LET m == BeforePortal(st, i)
            p == ProcessPortal(m, i)
            n == loop(st, i)
        IN  (st.cpu = "running" /\ m.cpu = "running"
             /\ m.portalMode = PORTAL_UP /\ i.save.fire) =>
              /\ p.portalMode = PORTAL_SAVE
              /\ \A k \in 1 .. 2 * TOTAL_ITEMS : n.streamsX[k] = p.param[k]
              /\ \A k \in Slots :
                    n.prefs.stations[k + 1] =
                      [tag |-> p.param[2 * k + 1], url |-> p.param[2 * k + 2]]
              /\ InLog(n, "populatePrefs")
              /\ ~n.webPortal
              /\ n.portalMode = (IF i.portalSwitch THEN PORTAL_IDLE ELSE PORTAL_DOWN)

\* C20: releasing PORTAL_PIN cancels the portal from any of its modes: a
\* pass that reads the pin high while the portal is Up, has a save pending
\* or is Idle ends in PORTAL_DOWN with the web server stopped; the web
\* server runs only while the portal is Up.
C20_ReleaseCancelsPortal ==
    /\ st.webPortal <=> st.portalMode = PORTAL_UP
    /\ st.portalMode \in {PORTAL_DOWN, PORTAL_UP, PORTAL_IDLE}
    /\ \A i \in StationInputs :
          LET m == BeforePortal(st, i)
              p == ProcessPortal(m, i)
              n == loop(st, i)
          IN  (st.cpu = "running" /\ m.cpu = "running" /\ ~i.portalSwitch) =>
                /\ n.portalMode = PORTAL_DOWN /\ ~n.webPortal
                /\ p.portalMode \in {PORTAL_UP, PORTAL_SAVE} =>
                      EndsWith(n.log, << "wifiMan.stopWebPortal" >>)
                /\ p.portalMode \in {PORTAL_DOWN, PORTAL_IDLE} =>
                      ~InLog(n, "wifiMan.stopWebPortal")

\* the portal has been up and the pin has been released: the portal is
\* down with the web server stopped, the stations as they were
C20_Witness ==
    /\ st.portalMode = PORTAL_DOWN /\ ~st.webPortal /\ ~st.firstPortal
    /\ \A k \in Slots : checkProtocol(st, k)
    /\ \E i \in StationInputs :
          /\ i.portalSwitch
          /\ loop(st, i).portalMode = PORTAL_UP

\* C21: after a committed save the portal stays Idle, with the web server
\* not started again, in every pass that reads PORTAL_PIN low; a pass takes
\* the portal to Up only from Down, so Up is reached again only after a
\* pass has read the pin high (Idle to Down) and a later pass reads it low;
\* no pass goes from Idle or from a pending save to Up.
C21_IdleHoldsWhileAsserted ==
    \A i \in StationInputs :
        LET m == BeforePortal(st, i)
            p == ProcessPortal(m, i)
            n == loop(st, i)
        IN  (st.cpu = "running" /\ m.cpu = "running") =>
              /\ m.portalMode = st.portalMode
              /\ (st.portalMode = PORTAL_IDLE /\ i.portalSwitch) =>
                    /\ n.portalMode = PORTAL_IDLE /\ ~n.webPortal
                    /\ ~InLog(n, "wifiMan.startWebPortal")
              /\ (st.portalMode = PORTAL_IDLE /\ ~i.portalSwitch) =>
                    /\ n.portalMode = PORTAL_DOWN /\ ~n.webPortal
                    /\ ~InLog(n, "wifiMan.startWebPortal")
              /\ p.portalMode = PORTAL_SAVE => n.portalMode # PORTAL_UP
              /\ InLog(n, "wifiMan.startWebPortal") =>
                    /\ st.portalMode = PORTAL_DOWN /\ i.portalSwitch
                    /\ n.portalMode = PORTAL_UP
              /\ (n.portalMode = PORTAL_UP /\ st.portalMode # PORTAL_UP) =>
                    InLog(n, "wifiMan.startWebPortal")

\* the portal is idle after a save: it stays idle in a pass that reads the
\* pin low and goes down in a pass that reads it high
C21_Witness ==
    /\ st.cpu = "running" /\ st.portalMode = PORTAL_IDLE
    /\ \E i \in StationInputs :
          i.portalSwitch /\ loop(st, i).portalMode = PORTAL_IDLE
    /\ \E j \in StationInputs :
          ~j.portalSwitch /\ loop(st, j).portalMode = PORTAL_DOWN

\* C22: the portal commit stores the entries of the form (each tag and url
\* of at most 49 characters) in streamsX so that reading slot k returns the
\* tag and the url of entry k, for every k, whatever the slots held before
\* (fields filled to their last byte included); the preferences receive the
\* same strings and a reload returns them again.
C22_BulkUpdateRoundTrips ==
    \A i \in StoreInputs :
        LET p == ProcessPortal(st, i)
            n == PortalStep(st, i)
            r == PopulateFrom(n, 0)
        IN  (st.portalMode = PORTAL_UP /\ i.save.fire) =>
              /\ InLog(n, "populatePrefs")
              /\ Len(i.save.tag) <= 49 => p.param[2 * i.save.slot + 1] = i.save.tag
              /\ Len(i.save.url) <= 49 => p.param[2 * i.save.slot + 2] = i.save.url
              /\ \A k \in Slots :
                    /\ Len(p.param[2 * k + 1]) <= 49 /\ Len(p.param[2 * k + 2]) <= 49
                    /\ getStreamsTag(n, k) = p.param[2 * k + 1]
                    /\ getStreamsUrl(n, k) = p.param[2 * k + 2]
                    /\ n.prefs.stations[k + 1] =
                          [tag |-> p.param[2 * k + 1], url |-> p.param[2 * k + 2]]
                    /\ getStreamsTag(r, k) = p.param[2 * k + 1]
                    /\ getStreamsUrl(r, k) = p.param[2 * k + 2]

\* the portal is up, a slot holds a tag field filled to its last byte, and
\* a form for that slot is committed
C22_Witness ==
    /\ st.portalMode = PORTAL_UP
    /\ \E k \in Slots :
          /\ Len(st.streamsX[2 * k + 1]) = STREAM_ELEMENT_SIZE
          /\ Len(getStreamsTag(st, k)) > STREAM_ELEMENT_SIZE
          /\ \E i \in StoreInputs :
                /\ i.save.fire /\ i.save.slot = k /\ i.save.tag = "Jazz"
                /\ getStreamsTag(PortalStep(st, i), k) = "Jazz"

C24_ChangeAndSleepStopStream ==
    /\ st.systemIsSleeping => (~st.systemStreaming /\ ~st.icyOpen)
    /\ \A i \in UserInputs :
          LET n == loop(st, i)
          IN  (st.cpu = "running"
               /\ \/ n.currentIndex # st.currentIndex
                  \/ (i.toggle /\ ~st.systemIsSleeping)
                  \/ (n.systemIsSleeping /\ ~st.systemIsSleeping)
                  \/ n.cpu = "suspended") =>
                /\ InLog(n, "icystream.end")
                /\ ~n.systemStreaming /\ ~n.icyOpen

\* the sleep timer has expired in the pass of a station change: the system
\* is Asleep on a station that has not been started yet
C24_Witness ==
    /\ st.cpu = "running" /\ st.systemIsSleeping /\ ~st.systemStreaming
    /\ st.timerIsRunning /\ SleepExpired(st)
    /\ st.currentIndex # st.prefs.curStream

\* C25: a boot that finds no marker seeds the station store from the
\* default table, and a boot interrupted during the seeding is followed by
\* a boot that seeds again: whenever loop() runs, every slot of the store
\* and of streamsX holds its default station.
C25_InterruptedSeedingReseeds ==
    st.cpu = "running" =>
        \A k \in Slots :
            /\ st.prefs.stations[k + 1] = stream_data[k + 1]
            /\ getStreamsTag(st, k) = stream_data[k + 1].tag
            /\ getStreamsUrl(st, k) = stream_data[k + 1].url

C27_TransitionsRearmDisplay ==
    \A i \in UserInputs :
        st.cpu = "running" =>
            LET n == loop(st, i)
            IN  (\/ InLog(n, "click")
                 \/ InLog(n, "turn")
                 \/ InLog(n, "TOGGLE_PIN")
                 \/ InLog(n, "icystream.begin")
                 \/ InLog(n, "oled:Missing URL")
                 \/ InLog(n, "oled:SLEEPING")
                 \/ InLog(n, "oled:WAKE UP")
                 \/ n.portalMode # st.portalMode)
                => (n.displayIsOn /\ n.oledStartTime = n.millis)

\* C28: when the display timeout fires with the menu open and the volume
\* above 0, the menu is closed, the cursor is set to currentIndex, the
\* toggle option is disarmed and the encoder is set to volumePos, while
\* currentIndex, the stream, the sleep state and the volume stay as they
\* were; without TOGGLE_PIN and without the sleep timer expiring the whole
\* pass leaves the station and the stream alone. volumePos is the encoder
\* position of the pass that opened the menu and is not written while the
\* menu stays open.
C28_TimeoutClosesMenu ==
    \A i \in UserInputs :
        st.cpu = "running" =>
            LET e == EnterLoop(st, i)
                p == InputStep(st, i)
                d == DisplayStep(p)
                n == loop(st, i)
            IN  /\ (DisplayExpired(p) /\ p.streamSelectionMenuIsOpen /\ p.volLevel > 0) =>
                       /\ ~d.streamSelectionMenuIsOpen
                       /\ d.menuIndex = p.currentIndex
                       /\ ~d.streamToggleOption
                       /\ d.encoderPos = p.volumePos /\ ~encoderChangedVal(d)
                       /\ d.currentIndex = p.currentIndex
                       /\ d.systemStreaming = p.systemStreaming
                       /\ d.icyOpen = p.icyOpen /\ d.icyUrl = p.icyUrl
                       /\ d.systemIsSleeping = p.systemIsSleeping
                       /\ d.volLevel = p.volLevel
                       /\ CountLog(d, "icystream.end") = CountLog(p, "icystream.end")
                       /\ (~i.toggle /\ ~InLog(n, "oled:SLEEPING")) =>
                              /\ n.currentIndex = st.currentIndex
                              /\ n.systemStreaming = st.systemStreaming
                              /\ n.icyUrl = st.icyUrl
                              /\ ~InLog(n, "icystream.begin")
                              /\ ~InLog(n, "icystream.end")
                /\ (st.streamSelectionMenuIsOpen /\ n.streamSelectionMenuIsOpen) =>
                       n.volumePos = st.volumePos
                /\ (~st.streamSelectionMenuIsOpen /\ n.streamSelectionMenuIsOpen) =>
                       n.volumePos = e.encoderPos

\* the menu is open with the cursor moved away from the current station
\* and the encoder away from the saved position, and the display times out
C28_Witness ==
    /\ st.cpu = "running"
    /\ st.streamSelectionMenuIsOpen
    /\ st.menuIndex # st.currentIndex
    /\ st.encoderPos # st.volumePos
    /\ st.volLevel > 0
    /\ \E i \in UserInputs :
           /\ DisplayExpired(InputStep(st, i))
           /\ InputStep(st, i).streamSelectionMenuIsOpen
           /\ ~loop(st, i).streamSelectionMenuIsOpen
           /\ loop(st, i).menuIndex = st.currentIndex
           /\ loop(st, i).encoderPos = st.volumePos

\* C29: a click with the menu open and the toggle option not armed closes
\* the menu, makes the cursor the currentIndex, sets the encoder back to
\* volumePos and stops the stream; when the url of the chosen slot passes
\* checkProtocol, the next pass of an Awake system opens that url, sets
\* systemStreaming and stores the index as curStream.
C29_MenuClickSelects ==
    \A i \in StationInputs :
        LET b == BeforeButton(EnterLoop(st, i), i)
            c == ButtonStep(b, i)
            n == loop(st, i)
        IN  (st.cpu = "running" /\ ~st.systemIsSleeping /\ i.click
             /\ b.volLevel > 0 /\ ~b.timerInSetupMode
             /\ b.streamSelectionMenuIsOpen /\ ~b.streamToggleOption) =>
              /\ ~c.streamSelectionMenuIsOpen
              /\ c.currentIndex = b.menuIndex
              /\ c.encoderPos = b.volumePos /\ ~encoderChangedVal(c)
              /\ ~c.systemStreaming /\ ~c.icyOpen /\ InLog(c, "icystream.end")
              /\ n.currentIndex = b.menuIndex
              /\ ~n.systemStreaming /\ ~n.streamSelectionMenuIsOpen
              /\ (n.cpu = "running" /\ ~n.systemIsSleeping
                  /\ checkProtocol(n, n.currentIndex)) =>
                    \A j \in StationInputs :
                        LET q == StreamStep(EnterLoop(Settle(n), j), j)
                        IN  /\ q.systemStreaming /\ q.icyOpen = j.connect
                            /\ InLog(q, "icystream.begin")
                            /\ q.icyUrl = getStreamsUrl(n, b.menuIndex)
                            /\ q.currentIndex = b.menuIndex
                            /\ getSetting(q, "curStream") = b.menuIndex

\* the cursor has been moved to another station with a valid url, a click
\* selects it, and the next pass streams it
C29_Witness ==
    /\ st.cpu = "running" /\ ~st.systemIsSleeping
    /\ st.streamSelectionMenuIsOpen /\ ~st.streamToggleOption
    /\ st.menuIndex # st.currentIndex
    /\ getSetting(st, "curStream") # st.menuIndex
    /\ \E i \in StationInputs :
           /\ i.click
           /\ loop(st, i).currentIndex = st.menuIndex
           /\ checkProtocol(loop(st, i), st.menuIndex)
           /\ loop(Settle(loop(st, i)), Quiet).systemStreaming
           /\ getSetting(loop(Settle(loop(st, i)), Quiet), "curStream") = st.menuIndex

\* C30: a rotation of the knob seen by an Awake system is handled by one
\* mode. With the menu open only the cursor moves (volume and timer as
\* before); otherwise in timer setup only the timer choice moves (volume
\* and cursor as before); otherwise only the volume follows the encoder
\* (cursor and timer as before). In every mode currentIndex, the stream
\* and the sleep state are as before.
C30_RotationOneMode ==
    \A i \in UserInputs :
        LET b == BeforeRotation(EnterLoop(st, i), i)
            r == RotationStep(b)
            timer(s) == << s.timerIsRunning, s.sleepTimerDuration, s.timerInSetupMode >>
        IN  (st.cpu = "running" /\ ~st.systemIsSleeping /\ encoderChangedVal(b)) =>
              /\ r.currentIndex = b.currentIndex
              /\ r.systemStreaming = b.systemStreaming
              /\ r.icyOpen = b.icyOpen /\ r.icyUrl = b.icyUrl
              /\ r.systemIsSleeping = b.systemIsSleeping
              /\ r.streamSelectionMenuIsOpen = b.streamSelectionMenuIsOpen
              /\ r.prefs = b.prefs
              /\ IF b.streamSelectionMenuIsOpen
                 THEN /\ r.menuIndex # b.menuIndex
                      /\ r.volLevel = b.volLevel
                      /\ timer(r) = timer(b)
                 ELSE IF b.timerInSetupMode
                 THEN /\ << r.timerIsRunning, r.sleepTimerDuration >>
                           # << b.timerIsRunning, b.sleepTimerDuration >>
                      /\ r.timerInSetupMode
                      /\ r.volLevel = b.volLevel
                      /\ r.menuIndex = b.menuIndex
                 ELSE /\ r.volLevel = 100 - readEncoder(b)
                      /\ r.menuIndex = b.menuIndex
                      /\ timer(r) = timer(b)

\* the knob is turned with the menu open and the encoder away from the
\* position of the volume: the cursor moves and the volume stays
C30_Witness ==
    /\ st.cpu = "running" /\ ~st.systemIsSleeping
    /\ st.streamSelectionMenuIsOpen
    /\ st.volLevel # 50
    /\ \E i \in UserInputs :
           /\ i.rot # 0 /\ ~i.click /\ ~i.toggle
           /\ InLog(InputStep(st, i), "turn")
           /\ InputStep(st, i).menuIndex # st.menuIndex
           /\ InputStep(st, i).volLevel = st.volLevel

\* C31: a rotation with the menu closed and no timer setup sets volLevel
\* to 100 minus the encoder position, a value in 0..100, and writes nothing
\* to the preferences; a pass changes the stored volume only when its
\* display timeout fires, and a pass whose display timeout fires without a
\* power-down ends with the stored volume equal to volLevel.
C31_VolumeStoredAtTimeout ==
    \A i \in UserInputs :
        st.cpu = "running" =>
            LET b == BeforeRotation(EnterLoop(st, i), i)
                r == RotationStep(b)
                p == InputStep(st, i)
                n == loop(st, i)
            IN  /\ (~st.systemIsSleeping /\ encoderChangedVal(b)
                    /\ ~b.streamSelectionMenuIsOpen /\ ~b.timerInSetupMode) =>
                       /\ r.volLevel = 100 - readEncoder(r)
                       /\ r.volLevel \in 0 .. 100
                       /\ r.prefs = b.prefs
                /\ getSetting(p, "volume") = getSetting(st, "volume")
                /\ getSetting(n, "volume") # getSetting(st, "volume") => DisplayExpired(p)
                /\ (DisplayExpired(p) /\ n.cpu = "running") =>
                       /\ getSetting(n, "volume") = n.volLevel
                       /\ n.volLevel = p.volLevel

\* the volume has been turned away from the stored one, and the display
\* timeout stores it
C31_Witness ==
    /\ st.cpu = "running" /\ ~st.systemIsSleeping
    /\ st.volLevel # getSetting(st, "volume")
    /\ st.volLevel > 0
    /\ \E i \in UserInputs :
           /\ DisplayExpired(InputStep(st, i))
           /\ loop(st, i).cpu = "running"
           /\ getSetting(loop(st, i), "volume") = st.volLevel

\* C32: currentIndex, the menu cursor and the stored previous and current
\* index are slots of the station array in every state, and so is every
\* index that a pass hands to the accessors: the station that is started,
\* and the lines that displayStreamMenu draws when the menu is opened
\* (cursor currentIndex) and when it is scrolled (cursor menuIndex).
C32_IndicesInRange ==
    /\ st.currentIndex \in Slots
    /\ st.menuIndex \in Slots
    /\ getSetting(st, "prvStream") \in Slots
    /\ getSetting(st, "curStream") \in Slots
    /\ \A i \in UserInputs :
           (st.cpu = "running" /\ ~st.systemIsSleeping) =>
               LET b == BeforeButton(EnterLoop(st, i), i)
                   c == ButtonStep(b, i)
                   r == RotationStep(c)
               IN  /\ b.currentIndex \in Slots
                   /\ c.currentIndex \in Slots /\ c.menuIndex \in Slots
                   /\ (c.streamSelectionMenuIsOpen /\ ~b.streamSelectionMenuIsOpen) =>
                          displayStreamMenu(c, c.currentIndex) \subseteq Slots
                   /\ r.menuIndex \in Slots
                   /\ (r.streamSelectionMenuIsOpen /\ encoderChangedVal(c)) =>
                          displayStreamMenu(r, r.menuIndex) \subseteq Slots

\* the cursor is on slot 0 and a turn takes it back to the last slot, so
\* that the menu draws the last slot with slot 0 as its next line
C32_Witness ==
    /\ st.cpu = "running" /\ ~st.systemIsSleeping
    /\ st.streamSelectionMenuIsOpen /\ st.menuIndex = 0
    /\ \E i \in UserInputs :
           /\ InputStep(st, i).streamSelectionMenuIsOpen
           /\ InputStep(st, i).menuIndex = TOTAL_ITEMS - 1
           /\ displayStreamMenu(InputStep(st, i), TOTAL_ITEMS - 1)
                  = {st.currentIndex, TOTAL_ITEMS - 2, TOTAL_ITEMS - 1, 0}

\* times that pass between the arming of a timer and its test: none, the
\* two windows and one millisecond more, and times that take the clock
\* through its wrap
Elapsed ==
    {0, 1, OLED_TIMER, OLED_TIMER + 1, MS1HOUR, MS1HOUR + 1, MS12HOUR, MS12HOUR + 1,
     ClockStep + OLED_TIMER + 1, ULONG_MOD - 1, ULONG_MOD, ULONG_MOD + OLED_TIMER}

\* C33: with millis() wrapping at 2^ClockBits, the display timeout of a
\* pass fires exactly when the display is on and the time since
\* oledStartTime, taken modulo 2^ClockBits, is more than OLED_TIMER, and
\* the sleep timer fires exactly when the system is Awake, the timer runs
\* and the time since sleepStartTime, modulo 2^ClockBits, is more than
\* sleepTimerDuration. The same holds when the clock stands any of the
\* times of Elapsed after the baseline, across the wrap or not.
C33_TimersWrapSafe ==
    /\ \A i \in UserInputs :
           st.cpu = "running" =>
               LET p == InputStep(st, i)
                   d == DisplayStep(p)
               IN  /\ (d # p) <=>
                          (p.displayIsOn
                           /\ (p.millis - p.oledStartTime) % ULONG_MOD > OLED_TIMER)
                   /\ d.cpu = "running" =>
                          ((SleepTimerStep(d) # d) <=>
                              (~d.systemIsSleeping /\ d.timerIsRunning
                               /\ (d.millis - d.sleepStartTime) % ULONG_MOD
                                      > d.sleepTimerDuration))
    /\ \A e \in Elapsed :
           LET a == [st EXCEPT !.millis = (st.oledStartTime + e) % ULONG_MOD]
               b == [st EXCEPT !.millis = (st.sleepStartTime + e) % ULONG_MOD]
           IN  /\ DisplayExpired(a) <=> (st.displayIsOn /\ e % ULONG_MOD > OLED_TIMER)
               /\ SleepExpired(b) <=> (e % ULONG_MOD > st.sleepTimerDuration)

\* the display was armed before the wrap of the clock and the pass after
\* the wrap, with the clock below the baseline, turns it off
C33_Witness ==
    /\ st.cpu = "running"
    /\ st.displayIsOn
    /\ st.oledStartTime > 0
    /\ \E i \in UserInputs :
           /\ InputStep(st, i).millis < InputStep(st, i).oledStartTime
           /\ DisplayExpired(InputStep(st, i))
           /\ ~DisplayStep(InputStep(st, i)).displayIsOn

\* C34: the encoder interrupt changes the raw encoder position and nothing
\* else, and a step of the knob that arrives between the menu's read of
\* the encoder and its re-center is not lost: when the scroll has ended,
\* the encoder stands that step away from the center.
C34_ScrollReadResetAtomic ==
    /\ \A delta \in Turns :
           readEncoderISR(st, delta) = [st EXCEPT !.encoderPos = Clamp(@ + delta)]
    /\ (st.pc = "scroll" /\ st.encoderPos # st.encoderCurrPos) =>
           \A i \in ScrollInputs :
               ScrollRest(st, i).encoderPos
                   = Clamp(50 + (st.encoderPos - st.encoderCurrPos))

\* C35: whenever systemStreaming is set, the url that the last
\* icystream.begin was given is the url that streamsX holds for
\* currentIndex.
C35_StreamIsCurrentStation ==
    st.systemStreaming => st.icyUrl = getStreamsUrl(st, st.currentIndex)

\* C36: when the stream start finds the url of currentIndex failing
\* checkProtocol and reverts, the index it reverts to has a url that
\* passes checkProtocol, so that the next pass starts a stream instead of
\* taking the error branch again.
C36_RevertTargetValid ==
    \A i \in StationInputs :
        (st.cpu = "running" /\ ~st.systemIsSleeping) =>
            LET a == StreamStep(EnterLoop(st, i), i)
            IN  InLog(a, "oled:Missing URL") =>
                    /\ checkProtocol(a, a.currentIndex)
                    /\ StreamStep(EnterLoop(Settle(a), Quiet), Quiet).systemStreaming

\* C37: every pass of loop() that ends with the menu closed ends with the
\* menu cursor equal to currentIndex.
C37_CursorFollowsCurrent ==
    \A i \in UserInputs :
        st.cpu = "running" =>
            LET n == loop(st, i)
            IN  (n.cpu = "running" /\ ~n.streamSelectionMenuIsOpen) =>
                    n.menuIndex = n.currentIndex

\* C38: while timer setup is active, the sleep timer test of a pass acts
\* on the committed timer, the enabled flag and the duration that the
\* preferences hold: it puts the system to sleep exactly when the
\* committed timer is enabled and has expired, whatever choice the knob
\* has reached.
C38_SetupChoiceNotLive ==
    \A i \in UserInputs :
        st.cpu = "running" =>
            LET d == DisplayStep(InputStep(st, i))
                y == assignTimerValsFromPrefs(d)
            IN  (d.cpu = "running" /\ d.timerInSetupMode /\ ~d.systemIsSleeping) =>
                    ((SleepTimerStep(d) # d) <=> (y.timerIsRunning /\ SleepExpired(y)))

\* C39: between two passes the web server runs exactly when portalMode is
\* PORTAL_UP or PORTAL_SAVE. A pass starts the server at most once and only
\* when it goes from PORTAL_DOWN to PORTAL_UP, stops it at most once and
\* only when it was running in PORTAL_UP, and calls wifiMan.process only
\* when portalMode is PORTAL_UP, which is the only place where the save
\* callback runs.
C39_ServerFollowsPortalState ==
    /\ st.webPortal <=> st.portalMode \in {PORTAL_UP, PORTAL_SAVE}
    /\ \A i \in StationInputs :
           st.cpu = "running" =>
               LET n == loop(st, i)
               IN  /\ n.webPortal <=> n.portalMode \in {PORTAL_UP, PORTAL_SAVE}
                   /\ CountLog(n, "wifiMan.startWebPortal") <= 1
                   /\ InLog(n, "wifiMan.startWebPortal") =>
                          /\ st.portalMode = PORTAL_DOWN /\ ~st.webPortal
                          /\ n.portalMode = PORTAL_UP
                   /\ CountLog(n, "wifiMan.stopWebPortal") <= 1
                   /\ InLog(n, "wifiMan.stopWebPortal") =>
                          /\ st.portalMode = PORTAL_UP /\ st.webPortal
                          /\ n.portalMode \in {PORTAL_DOWN, PORTAL_IDLE}
                   /\ InLog(n, "wifiMan.process") => st.portalMode = PORTAL_UP
                   /\ InLog(n, "callbackSaveParams") => InLog(n, "wifiMan.process")

\* the portal is up, the form is saved with the switch held, and the pass
\* stops the server and ends in PORTAL_IDLE
C39_Witness ==
    /\ st.cpu = "running"
    /\ st.portalMode = PORTAL_UP /\ st.webPortal
    /\ \E i \in StationInputs :
           /\ i.portalSwitch /\ i.save.fire
           /\ InLog(loop(st, i), "callbackSaveParams")
           /\ CountLog(loop(st, i), "wifiMan.stopWebPortal") = 1
           /\ loop(st, i).portalMode = PORTAL_IDLE
           /\ ~loop(st, i).webPortal

===========================================================================
